---- MODULE Spec2Model ----
(***************************************************************************)
(* A model of the fsm package: a per-user finite state machine with a      *)
(* state store, a data store, a callback registry and JSON persistence.    *)
(*                                                                         *)
(* The source tree holds two revisions of the engine.  rev = "cur" is the  *)
(* engine of fsm.go lines 1-142 over the stores of user_state_storage.go   *)
(* and data_storage.go; rev = "early" is the engine of fsm.go lines        *)
(* 144-299, which keeps both maps and both mutexes in the FSM struct.      *)
(* A behaviour runs one revision from start to end.                        *)
(*                                                                         *)
(* Host threads call the engine.  Every store method is two steps: the     *)
(* thread takes the mutex (Lock), then runs the body and releases it.      *)
(* A callback is host code: it makes a bounded number of engine calls for  *)
(* the user of the transition that dispatched it, then returns nil or an   *)
(* error.                                                                  *)
(***************************************************************************)
EXTENDS Integers, Sequences, FiniteSets, TLC

\* Bounds of the model.
MaxCalls == 3

Threads == {1, 2}
Users == {7, 42}
States == {"default", "ask_name", "finish"}
Keys == {"name", "age"}
Vals == {"v1", "v2"}
ArgLists == {<<>>, <<"chat-99">>}
CallbackIDs == {"cbA", "cbB"}
Revs == {"cur", "early"}

\* Absence markers: a missing map entry, Go's nil value, no lock holder.
NoEntry == "<no entry>"
NoBag == [k \in Keys |-> "<no bag>"]
NilBag == [k \in Keys |-> "<nil map>"]
Nil == "<nil>"
NoCb == "<no callback>"
Free == 0

\* Error values.
ErrNil == "nil"
ErrCallback == "callback error"
errNoUserData == "no user data"
errNoUserState == "no user state"
ErrExecCallback == "failed to execute callback: callback error"
ErrGetUserData == "failed to get user data: no user data"
ErrUnsupportedType == "json: unsupported type: map[interface {}]interface {}"
ErrDecode == "json: cannot unmarshal"
ErrStore == "store error"
ErrSetUserState == "failed to set user state: store error"
ErrCheckUserState == "failed to check user state: store error"
ErrSetInitial == "failed to set user state to initial: store error"
ErrGetUserState == "failed to get user state: store error"

VARIABLES
    rev,             \* the revision of the engine this behaviour runs
    initialStateID,  \* FSM.initialStateID
    callbacks,       \* FSM.callbacks: StateID -> callback or NoCb
    userStates,      \* the state map: UserID -> StateID or NoEntry
    storage,         \* the data map: UserID -> bag or NoBag; bag: key -> value or Nil
    userStatesMu,    \* the state map's RWMutex: [w: holder or Free, r: set of readers]
    storageMu,       \* the data map's Mutex: holder or Free
    stack,           \* per thread, the call stack; the last frame is the running one
    left,            \* the engine calls left to the hosts and their callbacks
    bound,           \* per thread, the user it serves (0: any user)
    last,            \* per thread, the last host call that returned, with its result
    doc,             \* the JSON document the host holds: the last one marshalled
    snap             \* the initial StateID and the two maps when doc was marshalled

vars == <<rev, initialStateID, callbacks, userStates, storage, userStatesMu,
          storageMu, stack, left, bound, last, doc, snap>>

persisted == <<doc, snap>>

engine == <<rev, initialStateID, callbacks, userStates, storage>>

----------------------------------------------------------------------------
\* The in-memory stores (user_state_storage.go, data_storage.go).

EmptyBag == [k \in Keys |-> Nil]

\* Mutants of userStateStorage.Set: the write is dropped; the write lands on
\* every user's entry.
SetDropped(m, userID, stateID) == m
SetEveryUser(m, userID, stateID) == [u \in DOMAIN m |-> stateID]

\* userStateStorage.Set: u.storage[userID] = stateID
UserStateStorageSet(m, userID, stateID) == [m EXCEPT ![userID] = stateID]

\* Mutant of userStateStorage.Exists: no entry is ever found.
NeverExists(m, userID) == FALSE

\* userStateStorage.Exists: _, ok := u.storage[userID]
UserStateStorageExists(m, userID) == m[userID] # NoEntry

\* userStateStorage.Get (the revision of lines 38-48): a missing entry is ("", nil)
UserStateStorageGet(m, userID) ==
    IF m[userID] = NoEntry THEN [res |-> "", err |-> ErrNil]
    ELSE [res |-> m[userID], err |-> ErrNil]

\* userStateStorage.Get (the revision of lines 108-118): a missing entry is
\* ("", errNoUserState)
UserStateStorageGet2(m, userID) ==
    IF m[userID] = NoEntry THEN [res |-> "", err |-> errNoUserState]
    ELSE [res |-> m[userID], err |-> ErrNil]

\* Mutant of dataStorage.Set: every Set makes a new bag for the user.
SetFreshBag(d, userID, key, value) ==
    [d EXCEPT ![userID] = [EmptyBag EXCEPT ![key] = value]]

\* Mutant of dataStorage.Set: the value is written into every user's bag.
SetEveryBag(d, userID, key, value) ==
    [u \in DOMAIN d |->
        [(IF d[u] = NoBag THEN EmptyBag ELSE d[u]) EXCEPT ![key] = value]]

\* dataStorage.Set: the bag is made when the user has none, then s[key] = value
DataStorageSet(d, userID, key, value) ==
    LET s == IF d[userID] = NoBag THEN EmptyBag ELSE d[userID]
    IN  [d EXCEPT ![userID] = [s EXCEPT ![key] = value]]

\* Mutant of dataStorage.Get: an unset key is reported like a missing bag.
GetUnsetKeyFails(d, userID, key) ==
    IF d[userID] = NoBag \/ d[userID][key] = Nil
    THEN [res |-> Nil, err |-> errNoUserData]
    ELSE [res |-> d[userID][key], err |-> ErrNil]

\* dataStorage.Get: errNoUserData without a bag, else d.Storage[userID][key]
\* (nil when the bag is a nil map)
DataStorageGet(d, userID, key) ==
    IF d[userID] = NoBag THEN [res |-> Nil, err |-> errNoUserData]
    ELSE IF d[userID] = NilBag THEN [res |-> Nil, err |-> ErrNil]
    ELSE [res |-> d[userID][key], err |-> ErrNil]

\* Mutant of dataStorage.Delete: the key is kept.
DeleteNothing(d, userID, key) == d

\* dataStorage.Delete: nothing without a bag, else delete(d.Storage[userID], key)
DataStorageDelete(d, userID, key) ==
    IF d[userID] \in {NoBag, NilBag} THEN d
    ELSE [d EXCEPT ![userID] = [d[userID] EXCEPT ![key] = Nil]]

\* FSM.Get of the early revision: (nil, false) without a bag, else s[key] and ok
EarlyGet(d, userID, key) ==
    IF d[userID] \in {NoBag, NilBag} THEN [res |-> Nil, err |-> "not ok"]
    ELSE [res |-> d[userID][key],
          err |-> IF d[userID][key] = Nil THEN "not ok" ELSE ErrNil]

----------------------------------------------------------------------------
\* JSON documents.  A document is well-formed or not (syntax); a well-formed
\* one is an object with the members initial_state_id, user_states and storage.
\* The objects user_states and storage are keyed by member name: the decimal
\* form of a UserID, or a name that is no integer.

JKeys == {"7", "42", "x"}

\* strconv's decimal form of a UserID, as json writes an int64 map key.
FormatInt(userID) == IF userID = 7 THEN "7" ELSE "42"

\* json reads an int64 map key with ParseInt: ok is false for a non-integer.
ParseInt(j) ==
    IF j = "7" THEN [n |-> 7, ok |-> TRUE]
    ELSE IF j = "42" THEN [n |-> 42, ok |-> TRUE]
    ELSE [n |-> 0, ok |-> FALSE]

EmptyStates == [j \in JKeys |-> NoEntry]
EmptyStorage == [j \in JKeys |-> NoBag]

NoDoc == [of |-> "none", syntax |-> FALSE, initial_state_id |-> "<no document>",
          user_states |-> EmptyStates, storage |-> EmptyStorage]

\* Call frames.

Frame(op, userID) ==
    [op |-> op, pc |-> "lock", sec |-> "", user |-> userID, state |-> "",
     key |-> "", val |-> "", args |-> <<>>, cb |-> NoCb, n |-> 0,
     ok |-> FALSE, res |-> "", err |-> ErrNil, did |-> {}, prev |-> "",
     doc |-> NoDoc]

Top(t) == stack[t][Len(stack[t])]
Running(t) == stack[t] # <<>>
SetTop(t, f) == [stack EXCEPT ![t] = [@ EXCEPT ![Len(@)] = f]]
Push(t, f, g) == [stack EXCEPT ![t] = Append([@ EXCEPT ![Len(@)] = f], g)]
Pop(t) == [stack EXCEPT ![t] = SubSeq(@, 1, Len(@) - 1)]

\* The engine calls a host thread or a callback may make for a user.  The early
\* revision has no Delete.
CallsFor(userID) ==
    {[Frame("Transition", userID) EXCEPT !.state = s, !.args = a, !.sec = "Set"] :
        s \in States, a \in ArgLists}
    \cup {[Frame("Current", userID) EXCEPT !.sec = "Exists"]}
    \cup {[Frame("Reset", userID) EXCEPT !.sec = "Set"]}
    \cup {[Frame("Set", userID) EXCEPT !.key = k, !.val = v] : k \in Keys, v \in Vals}
    \cup {[Frame("Get", userID) EXCEPT !.key = k] : k \in Keys}
    \cup IF rev = "cur"
         THEN {[Frame("Delete", userID) EXCEPT !.key = k] : k \in Keys}
         ELSE {}

\* The two revisions of the state store, named by the field that holds the map:
\* storage (user_state_storage.go lines 1-64), Storage (lines 66-134).
StoreRevs == {"storage", "Storage"}

\* The calls of the state store's own methods, for a host that holds the store
\* (the store it gave to WithUserStateStorage).
StoreCalls(userID) ==
    {[Frame("StateSet", userID) EXCEPT !.state = s, !.sec = r] :
        s \in States, r \in StoreRevs}
    \cup {[Frame("StateExists", userID) EXCEPT !.sec = r] : r \in StoreRevs}
    \cup {[Frame("StateGet", userID) EXCEPT !.sec = r] : r \in StoreRevs}

----------------------------------------------------------------------------
\* The mutexes.

\* The methods that take the data map's mutex; the others take the state map's.
DataOps == {"Set", "Get", "Delete", "DataMarshal", "DataUnmarshal"}

\* The early revision's Current and MarshalJSON take the read lock; every
\* other method of either revision takes its mutex exclusively.
Mode(f) == IF rev = "early" /\ f.op \in {"Current", "MarshalJSON"} THEN "R" ELSE "W"

CanLock(t, f) ==
    IF f.op \in DataOps THEN storageMu = Free
    ELSE IF Mode(f) = "R" THEN userStatesMu.w = Free
    ELSE userStatesMu.w = Free /\ userStatesMu.r = {}

Locked(t, f) ==
    IF f.op \in DataOps
    THEN /\ storageMu' = t
         /\ UNCHANGED userStatesMu
    ELSE /\ userStatesMu' = IF Mode(f) = "R"
                            THEN [userStatesMu EXCEPT !.r = @ \cup {t}]
                            ELSE [userStatesMu EXCEPT !.w = t]
         /\ UNCHANGED storageMu

Unlocked(t, f) ==
    IF f.op \in DataOps
    THEN /\ storageMu' = Free
         /\ UNCHANGED userStatesMu
    ELSE /\ userStatesMu' = IF Mode(f) = "R"
                            THEN [userStatesMu EXCEPT !.r = @ \ {t}]
                            ELSE [userStatesMu EXCEPT !.w = Free]
         /\ UNCHANGED storageMu

\* The thread is inside the body of a store method.
In(t, op) == Running(t) /\ Top(t).op = op /\ Top(t).pc = "in"

\* The outcomes of an access to a Go map that another thread accesses at the
\* same time, one of the two writing (a data race): the access is made, or the
\* runtime ends the process (fatal error: concurrent map writes, or concurrent
\* map read and map write).
Outcomes(racing) == IF racing THEN {"done", "fatal"} ELSE {"done"}

\* The runtime has ended the process.
Fatal == \E t \in Threads : Running(t) /\ Top(t).pc = "fatal"

\* Another thread is about to write f.callbacks (AddCallback), or, when the
\* thread writes, about to read it (Transition's lookup): no mutex guards
\* that map.
CallbacksRace(t, writes) ==
    \E o \in Threads \ {t} :
        /\ Running(o)
        /\ \/ Top(o).op = "AddCallback" /\ Top(o).pc = "in"
           \/ writes /\ Top(o).op = "Transition" /\ Top(o).pc = "dispatch"

\* Another thread is inside the early revision's Current, which holds the read
\* lock only, and one of the two writes the entry of a user that has none.
StatesRace(t) ==
    \E o \in Threads \ {t} :
        /\ In(o, "Current")
        /\ \/ userStates[Top(t).user] = NoEntry
           \/ userStates[Top(o).user] = NoEntry

----------------------------------------------------------------------------
\* Construction (New): the initial StateID, the callbacks given, empty stores.

\* The initial StateID the host gives to New.
ConstructedInitial == "default"

NoCall == Frame("none", 0)
Untracked == Frame("untracked", 0)

HostUsers(t) == IF bound[t] = 0 THEN Users ELSE {bound[t]}

New(initialStateName, cbs) ==
    /\ initialStateID = initialStateName
    /\ callbacks = cbs
    /\ userStates = [u \in Users |-> NoEntry]
    /\ storage = [u \in Users |-> NoBag]

Idle ==
    /\ userStatesMu = [w |-> Free, r |-> {}]
    /\ storageMu = Free
    /\ stack = [t \in Threads |-> <<>>]
    /\ doc = NoDoc
    /\ snap = [initialStateID |-> "", userStates |-> [u \in Users |-> NoEntry],
               storage |-> [u \in Users |-> NoBag]]

\* The callback maps given to New: none, or the handlers of two of the states.
InitialCallbacks ==
    {[s \in States |-> NoCb],
     [s \in States |-> IF s = "ask_name" THEN "cbA"
                        ELSE IF s = "finish" THEN "cbB" ELSE NoCb]}

\* One host thread that calls the engine for any user; the calls that return
\* are recorded in last.
Init ==
    /\ rev \in Revs
    /\ \E cbs \in InitialCallbacks : New(ConstructedInitial, cbs)
    /\ bound = [t \in Threads |-> 0]
    /\ Idle
    /\ left = MaxCalls
    /\ last = [t \in Threads |-> NoCall]

\* Two host threads, each serving its own user; the calls that return are
\* recorded in last.
InitUsers ==
    /\ rev \in Revs
    /\ \E cbs \in InitialCallbacks : New(ConstructedInitial, cbs)
    /\ bound = <<7, 42>>
    /\ Idle
    /\ left = MaxCalls
    /\ last = [t \in Threads |-> NoCall]

\* Two host threads, each serving one user: the same user, or two users.
InitConc ==
    /\ rev \in Revs
    /\ \E cbs \in InitialCallbacks : New(ConstructedInitial, cbs)
    /\ bound \in {<<7, 7>>, <<7, 42>>}
    /\ Idle
    /\ left = MaxCalls - 1
    /\ last = [t \in Threads |-> Untracked]

\* Two host threads serving the same user, over an engine constructed with
\* callbacks.
InitLive ==
    /\ InitConc
    /\ \E s \in States : callbacks[s] # NoCb
    /\ bound = <<7, 7>>

----------------------------------------------------------------------------
\* Calls.

\* A host thread calls the engine.
HostCall(t) ==
    /\ ~Running(t)
    /\ left > 0
    /\ \E u \in HostUsers(t) : \E f \in CallsFor(u) :
          stack' = [stack EXCEPT ![t] = <<f>>]
    /\ left' = left - 1
    /\ UNCHANGED <<engine, userStatesMu, storageMu, bound, last, persisted>>

\* A host thread calls Transition.
HostTransition(t) ==
    /\ ~Running(t)
    /\ left > 0
    /\ \E u \in HostUsers(t) : \E f \in CallsFor(u) :
          /\ f.op = "Transition"
          /\ stack' = [stack EXCEPT ![t] = <<f>>]
    /\ left' = left - 1
    /\ UNCHANGED <<engine, userStatesMu, storageMu, bound, last, persisted>>

\* A host thread calls AddCallback.
HostAddCallback(t) ==
    /\ ~Running(t)
    /\ left > 0
    /\ \E s \in States, c \in CallbackIDs :
          stack' = [stack EXCEPT ![t] =
              <<[Frame("AddCallback", 0) EXCEPT !.pc = "in", !.state = s, !.cb = c]>>]
    /\ left' = left - 1
    /\ UNCHANGED <<engine, userStatesMu, storageMu, bound, last, persisted>>

\* FSM.AddCallback: f.callbacks[stateID] = callback, under no lock.
AddCallback(t) ==
    /\ In(t, "AddCallback")
    /\ \E out \in Outcomes(CallbacksRace(t, TRUE)) :
          IF out = "fatal"
          THEN /\ callbacks' = callbacks
               /\ stack' = SetTop(t, [Top(t) EXCEPT !.pc = "fatal"])
               /\ left' = 0
          ELSE /\ callbacks' = [callbacks EXCEPT ![Top(t).state] = Top(t).cb]
               /\ stack' = SetTop(t, [Top(t) EXCEPT !.pc = "ret"])
               /\ left' = left
    /\ UNCHANGED <<rev, initialStateID, userStates, storage, userStatesMu,
                   storageMu, bound, last, persisted>>

\* mu.Lock() / mu.RLock() at the head of a store method.
Lock(t) ==
    /\ Running(t)
    /\ Top(t).pc = "lock"
    /\ CanLock(t, Top(t))
    /\ Locked(t, Top(t))
    /\ stack' = SetTop(t, [Top(t) EXCEPT !.pc = "in"])
    /\ UNCHANGED <<engine, left, bound, last, persisted>>

\* A call returns to its caller: to the host, or to the callback that made it.
Return(t) ==
    /\ Running(t)
    /\ Top(t).pc = "ret"
    /\ stack' = IF Len(stack[t]) = 1 THEN Pop(t)
                ELSE LET s == SubSeq(stack[t], 1, Len(stack[t]) - 1)
                     IN  [stack EXCEPT ![t] = [s EXCEPT ![Len(s)].did =
                                                  @ \cup {Top(t).op} \cup Top(t).did]]
    /\ last' = IF Len(stack[t]) = 1 /\ last[t] # Untracked
               THEN [last EXCEPT ![t] = Top(t)] ELSE last
    /\ UNCHANGED <<engine, userStatesMu, storageMu, left, bound, persisted>>

----------------------------------------------------------------------------
\* FSM.Transition.

\* Mutant of Transition: the store's mutex stays held after the write.
TransitionSetHoldsLock(t) ==
    /\ rev = "cur"
    /\ In(t, "Transition")
    /\ userStates' = UserStateStorageSet(userStates, Top(t).user, Top(t).state)
    /\ stack' = SetTop(t, [Top(t) EXCEPT !.pc = "dispatch",
                                         !.prev = userStates[Top(t).user]])
    /\ UNCHANGED <<rev, initialStateID, callbacks, storage, userStatesMu, storageMu,
                   left, bound, last, persisted>>

\* Mutant of Transition: entering a state drops the user's data bag.
TransitionSetClearsData(t) ==
    /\ rev = "cur"
    /\ In(t, "Transition")
    /\ userStates' = UserStateStorageSet(userStates, Top(t).user, Top(t).state)
    /\ storage' = [storage EXCEPT ![Top(t).user] = NoBag]
    /\ Unlocked(t, Top(t))
    /\ stack' = SetTop(t, [Top(t) EXCEPT !.pc = "dispatch",
                                         !.prev = userStates[Top(t).user]])
    /\ UNCHANGED <<rev, initialStateID, callbacks, left, bound, last, persisted>>

\* Transition, current revision: err := f.userStates.Set(userID, stateID)
TransitionSet(t) ==
    /\ rev = "cur"
    /\ In(t, "Transition")
    /\ userStates' = UserStateStorageSet(userStates, Top(t).user, Top(t).state)
    /\ Unlocked(t, Top(t))
    /\ stack' = SetTop(t, [Top(t) EXCEPT !.pc = "dispatch",
                                         !.prev = userStates[Top(t).user]])
    /\ UNCHANGED <<rev, initialStateID, callbacks, storage, left, bound, last, persisted>>

\* Transition, early revision: the section between Lock and Unlock.
TransitionEarly(t) ==
    /\ rev = "early"
    /\ In(t, "Transition")
    /\ LET f == Top(t)
           m == IF userStates[f.user] = NoEntry
                THEN [userStates EXCEPT ![f.user] = initialStateID]
                ELSE userStates
       IN  userStates' = [m EXCEPT ![f.user] = f.state]
    /\ Unlocked(t, Top(t))
    /\ stack' = SetTop(t, [Top(t) EXCEPT !.pc = "dispatch",
                                         !.prev = userStates[Top(t).user]])
    /\ UNCHANGED <<rev, initialStateID, callbacks, storage, left, bound, last, persisted>>

\* Mutant of the dispatch: the callback is called without the args.
CallbackFrameNoArgs(f, cb) ==
    [Frame("callback", f.user) EXCEPT !.pc = "run", !.cb = cb, !.state = f.state]

\* The frame of a callback dispatched by the Transition call f.
CallbackFrame(f, cb) ==
    [Frame("callback", f.user) EXCEPT
        !.pc = "run", !.cb = cb, !.state = f.state, !.args = f.args]

\* Transition: cb, okCb := f.callbacks[stateID]; if okCb { err = cb(ctx, args...) }
Dispatch(t) ==
    /\ Running(t)
    /\ Top(t).op = "Transition"
    /\ Top(t).pc = "dispatch"
    /\ \E out \in Outcomes(CallbacksRace(t, FALSE)) :
          LET f == Top(t)
              cb == callbacks[f.state]
          IN  IF out = "fatal"
              THEN /\ stack' = SetTop(t, [f EXCEPT !.pc = "fatal"])
                   /\ left' = 0
              ELSE /\ left' = left
                   /\ IF cb = NoCb
                      THEN stack' = SetTop(t, [f EXCEPT !.pc = "ret", !.err = ErrNil])
                      ELSE stack' = Push(t, [f EXCEPT !.pc = "callback", !.cb = cb,
                                                     !.n = @ + 1],
                                         CallbackFrame(f, cb))
    /\ UNCHANGED <<engine, userStatesMu, storageMu, bound, last, persisted>>

\* The running callback calls the engine for its user.
CallbackCall(t) ==
    /\ Running(t)
    /\ Top(t).op = "callback"
    /\ left > 0
    /\ \E g \in CallsFor(Top(t).user) :
          stack' = Push(t, [Top(t) EXCEPT !.n = @ + 1], g)
    /\ left' = left - 1
    /\ UNCHANGED <<engine, userStatesMu, storageMu, bound, last, persisted>>

\* The errors a callback may return: the early revision's callbacks return nothing.
CallbackErrors == IF rev = "cur" THEN {ErrNil, ErrCallback} ELSE {ErrNil}

\* Mutant of Transition: a failed callback rolls the state write back.
CallbackReturnRollsBack(t) ==
    /\ Running(t)
    /\ Top(t).op = "callback"
    /\ \E e \in CallbackErrors :
          LET s == SubSeq(stack[t], 1, Len(stack[t]) - 1)
              f == s[Len(s)]
          IN  /\ stack' = [stack EXCEPT ![t] =
                    [s EXCEPT ![Len(s)] =
                        [f EXCEPT !.pc = "ret", !.ok = TRUE, !.res = e,
                                  !.did = @ \cup Top(t).did,
                                  !.err = IF e = ErrNil THEN ErrNil ELSE ErrExecCallback]]]
              /\ userStates' = IF e = ErrNil THEN userStates
                               ELSE [userStates EXCEPT ![f.user] = f.prev]
    /\ UNCHANGED <<rev, initialStateID, callbacks, storage, userStatesMu, storageMu,
                   left, bound, last, persisted>>

\* Mutant of Transition: the state is written again after the callback.
CallbackReturnWritesAgain(t) ==
    /\ Running(t)
    /\ Top(t).op = "callback"
    /\ \E e \in CallbackErrors :
          LET s == SubSeq(stack[t], 1, Len(stack[t]) - 1)
              f == s[Len(s)]
          IN  /\ stack' = [stack EXCEPT ![t] =
                    [s EXCEPT ![Len(s)] =
                        [f EXCEPT !.pc = "ret", !.ok = TRUE, !.res = e,
                                  !.did = @ \cup Top(t).did,
                                  !.err = IF e = ErrNil THEN ErrNil ELSE ErrExecCallback]]]
              /\ userStates' = [userStates EXCEPT ![f.user] = f.state]
    /\ UNCHANGED <<rev, initialStateID, callbacks, storage, userStatesMu, storageMu,
                   left, bound, last, persisted>>

\* The callback returns; Transition wraps its error, if any.
CallbackReturn(t) ==
    /\ Running(t)
    /\ Top(t).op = "callback"
    /\ \E e \in CallbackErrors :
          LET s == SubSeq(stack[t], 1, Len(stack[t]) - 1)
              f == s[Len(s)]
          IN  stack' = [stack EXCEPT ![t] =
                  [s EXCEPT ![Len(s)] =
                      [f EXCEPT !.pc = "ret", !.ok = TRUE, !.res = e,
                                !.did = @ \cup Top(t).did,
                                !.err = IF e = ErrNil THEN ErrNil ELSE ErrExecCallback]]]
    /\ UNCHANGED <<engine, userStatesMu, storageMu, left, bound, last, persisted>>

----------------------------------------------------------------------------
\* FSM.Current.

\* Current, current revision: ok, err := f.userStates.Exists(userID)
CurrentExists(t) ==
    /\ rev = "cur"
    /\ In(t, "Current")
    /\ Top(t).sec = "Exists"
    /\ LET ok == UserStateStorageExists(userStates, Top(t).user)
       IN  stack' = SetTop(t, [Top(t) EXCEPT !.pc = "lock", !.ok = ok,
                                            !.sec = IF ok THEN "Get" ELSE "Set"])
    /\ Unlocked(t, Top(t))
    /\ UNCHANGED <<engine, left, bound, last, persisted>>

\* Current, current revision: f.userStates.Set(userID, f.initialStateID)
CurrentSet(t) ==
    /\ rev = "cur"
    /\ In(t, "Current")
    /\ Top(t).sec = "Set"
    /\ userStates' = UserStateStorageSet(userStates, Top(t).user, initialStateID)
    /\ Unlocked(t, Top(t))
    /\ stack' = SetTop(t, [Top(t) EXCEPT !.pc = "ret", !.res = initialStateID])
    /\ UNCHANGED <<rev, initialStateID, callbacks, storage, left, bound, last, persisted>>

\* Current, current revision: state, err := f.userStates.Get(userID)
CurrentGet(t) ==
    /\ rev = "cur"
    /\ In(t, "Current")
    /\ Top(t).sec = "Get"
    /\ LET r == UserStateStorageGet(userStates, Top(t).user)
       IN  stack' = SetTop(t, [Top(t) EXCEPT !.pc = "ret", !.res = r.res, !.err = r.err])
    /\ Unlocked(t, Top(t))
    /\ UNCHANGED <<engine, left, bound, last, persisted>>

\* Current, early revision: the section between RLock and RUnlock, which
\* writes the entry of a user that has none.
CurrentEarly(t) ==
    /\ rev = "early"
    /\ In(t, "Current")
    /\ \E out \in Outcomes(StatesRace(t)) :
          LET f == Top(t)
              ok == userStates[f.user] # NoEntry
          IN  IF out = "fatal"
              THEN /\ userStates' = userStates
                   /\ stack' = SetTop(t, [f EXCEPT !.pc = "fatal"])
                   /\ left' = 0
                   /\ UNCHANGED <<userStatesMu, storageMu>>
              ELSE /\ userStates' = IF ok THEN userStates
                                    ELSE [userStates EXCEPT ![f.user] = initialStateID]
                   /\ stack' = SetTop(t, [f EXCEPT !.pc = "ret", !.ok = ok,
                            !.res = IF ok THEN userStates[f.user] ELSE initialStateID])
                   /\ left' = left
                   /\ Unlocked(t, Top(t))
    /\ UNCHANGED <<rev, initialStateID, callbacks, storage, bound, last, persisted>>

----------------------------------------------------------------------------
\* FSM.Reset.

\* Mutant of Reset: the user keeps the state it has.
ResetLeavesState(t) ==
    /\ rev = "cur"
    /\ In(t, "Reset")
    /\ Unlocked(t, Top(t))
    /\ stack' = SetTop(t, [Top(t) EXCEPT !.pc = "ret", !.prev = userStates[Top(t).user]])
    /\ UNCHANGED <<engine, left, bound, last, persisted>>

\* Reset, current revision: f.userStates.Set(userID, f.initialStateID)
ResetSet(t) ==
    /\ rev = "cur"
    /\ In(t, "Reset")
    /\ userStates' = UserStateStorageSet(userStates, Top(t).user, initialStateID)
    /\ Unlocked(t, Top(t))
    /\ stack' = SetTop(t, [Top(t) EXCEPT !.pc = "ret", !.prev = userStates[Top(t).user]])
    /\ UNCHANGED <<rev, initialStateID, callbacks, storage, left, bound, last, persisted>>

\* Reset, early revision: delete(f.userStates, userID)
ResetEarly(t) ==
    /\ rev = "early"
    /\ In(t, "Reset")
    /\ userStates' = [userStates EXCEPT ![Top(t).user] = NoEntry]
    /\ Unlocked(t, Top(t))
    /\ stack' = SetTop(t, [Top(t) EXCEPT !.pc = "ret", !.prev = userStates[Top(t).user]])
    /\ UNCHANGED <<rev, initialStateID, callbacks, storage, left, bound, last, persisted>>

----------------------------------------------------------------------------
\* FSM.Set, FSM.Get, FSM.Delete.

\* Set: the body of dataStorage.Set (the early FSM.Set holds the same
\* statements).  Writing to a bag that is a nil map panics: the deferred Unlock
\* runs and the thread ends.
DataSet(t) ==
    /\ In(t, "Set")
    /\ IF storage[Top(t).user] = NilBag
       THEN /\ storage' = storage
            /\ stack' = SetTop(t, [Top(t) EXCEPT !.pc = "panic"])
       ELSE /\ storage' = DataStorageSet(storage, Top(t).user, Top(t).key, Top(t).val)
            /\ stack' = SetTop(t, [Top(t) EXCEPT !.pc = "ret"])
    /\ Unlocked(t, Top(t))
    /\ UNCHANGED <<rev, initialStateID, callbacks, userStates, left, bound, last, persisted>>

\* Get: dataStorage.Get wrapped by FSM.Get, or the early FSM.Get
DataGet(t) ==
    /\ In(t, "Get")
    /\ LET f == Top(t)
           r == IF rev = "cur" THEN DataStorageGet(storage, f.user, f.key)
                ELSE EarlyGet(storage, f.user, f.key)
       IN  stack' = SetTop(t, [f EXCEPT !.pc = "ret", !.res = r.res,
                     !.err = IF r.err = errNoUserData THEN ErrGetUserData ELSE r.err])
    /\ Unlocked(t, Top(t))
    /\ UNCHANGED <<engine, left, bound, last, persisted>>

\* Delete: dataStorage.Delete wrapped by FSM.Delete
DataDelete(t) ==
    /\ In(t, "Delete")
    /\ storage' = DataStorageDelete(storage, Top(t).user, Top(t).key)
    /\ Unlocked(t, Top(t))
    /\ stack' = SetTop(t, [Top(t) EXCEPT !.pc = "ret"])
    /\ UNCHANGED <<rev, initialStateID, callbacks, userStates, left, bound, last, persisted>>


----------------------------------------------------------------------------
\* The state store's methods, called on the store itself.

\* A host thread calls a method of the state store.
HostStore(t) ==
    /\ rev = "cur"
    /\ ~Running(t)
    /\ left > 0
    /\ \E u \in HostUsers(t) : \E f \in StoreCalls(u) :
          stack' = [stack EXCEPT ![t] = <<f>>]
    /\ left' = left - 1
    /\ UNCHANGED <<engine, userStatesMu, storageMu, bound, last, persisted>>

\* userStateStorage.Set, between Lock and Unlock (the same in both revisions)
StateSet(t) ==
    /\ In(t, "StateSet")
    /\ userStates' = UserStateStorageSet(userStates, Top(t).user, Top(t).state)
    /\ Unlocked(t, Top(t))
    /\ stack' = SetTop(t, [Top(t) EXCEPT !.pc = "ret"])
    /\ UNCHANGED <<rev, initialStateID, callbacks, storage, left, bound, last, persisted>>

\* userStateStorage.Exists, between Lock and Unlock (the same in both revisions)
StateExists(t) ==
    /\ In(t, "StateExists")
    /\ stack' = SetTop(t, [Top(t) EXCEPT !.pc = "ret",
                    !.ok = UserStateStorageExists(userStates, Top(t).user)])
    /\ Unlocked(t, Top(t))
    /\ UNCHANGED <<engine, left, bound, last, persisted>>

\* userStateStorage.Get, between Lock and Unlock, in the revision called
StateGet(t) ==
    /\ In(t, "StateGet")
    /\ LET r == IF Top(t).sec = "storage"
                THEN UserStateStorageGet(userStates, Top(t).user)
                ELSE UserStateStorageGet2(userStates, Top(t).user)
       IN  stack' = SetTop(t, [Top(t) EXCEPT !.pc = "ret", !.res = r.res, !.err = r.err])
    /\ Unlocked(t, Top(t))
    /\ UNCHANGED <<engine, left, bound, last, persisted>>

----------------------------------------------------------------------------
\* Persistence: MarshalJSON and UnmarshalJSON of the early FSM and of the two
\* stores, as encoding/json runs them.

\* json.Marshal of map[int64]StateID: one member per entry, keyed by FormatInt.
EncodeStates(m) ==
    [j \in JKeys |-> IF ParseInt(j).ok THEN m[ParseInt(j).n] ELSE NoEntry]

\* json.Marshal of map[int64]map[any]any: a bag has no encoding (its key type
\* is an interface), so only a map without bags is encoded.
CanEncodeStorage(d) == \A u \in Users : d[u] = NoBag

\* json.Unmarshal into map[int64]StateID: every member with an integer name is
\* stored into the map m; a member with another name is an error, after which
\* the decoding goes on.
DecodeStates(o, m) ==
    [map |-> [u \in Users |-> IF o[FormatInt(u)] # NoEntry THEN o[FormatInt(u)]
                              ELSE m[u]],
     ok |-> \A j \in JKeys : o[j] # NoEntry => ParseInt(j).ok]

\* json.Unmarshal into map[int64]map[any]any: an object cannot be decoded into
\* a bag, so every member is an error and leaves a nil bag under its integer
\* name.
DecodeStorage(o, d) ==
    [map |-> [u \in Users |-> IF o[FormatInt(u)] # NoBag THEN NilBag ELSE d[u]],
     ok |-> \A j \in JKeys : o[j] = NoBag]

\* The documents a host may hold besides the one it marshalled.
DocOther ==
    [of |-> "any", syntax |-> TRUE, initial_state_id |-> "finish",
     user_states |-> [EmptyStates EXCEPT !["42"] = "ask_name"],
     storage |-> EmptyStorage]
DocBadSyntax == [DocOther EXCEPT !.syntax = FALSE]
DocBadKey ==
    [DocOther EXCEPT !.user_states = [EmptyStates EXCEPT !["7"] = "ask_name",
                                                         !["x"] = "finish"]]
DocData ==
    [DocOther EXCEPT !.user_states = EmptyStates,
                     !.storage = [EmptyStorage EXCEPT
                                    !["7"] = [EmptyBag EXCEPT !["name"] = "v1"]]]
Docs == {DocOther, DocBadSyntax, DocBadKey, DocData}

\* The method that reads what a method wrote.
Reads(op) ==
    CASE op = "UnmarshalJSON" -> "MarshalJSON"
      [] op = "StateUnmarshal" -> "StateMarshal"
      [] op = "DataUnmarshal" -> "DataMarshal"

MarshalOps == IF rev = "early" THEN {"MarshalJSON"} ELSE {"StateMarshal", "DataMarshal"}
UnmarshalOps ==
    IF rev = "early" THEN {"UnmarshalJSON"} ELSE {"StateUnmarshal", "DataUnmarshal"}

Snapshot == [initialStateID |-> initialStateID, userStates |-> userStates,
             storage |-> storage]

\* The host marshals the engine (early revision) or one of its stores.
HostMarshal(t) ==
    /\ ~Running(t)
    /\ left > 0
    /\ \E op \in MarshalOps : stack' = [stack EXCEPT ![t] = <<Frame(op, 0)>>]
    /\ left' = left - 1
    /\ UNCHANGED <<engine, userStatesMu, storageMu, bound, last, persisted>>

\* The host unmarshals a document: the one it marshalled, or another.
HostUnmarshal(t) ==
    /\ ~Running(t)
    /\ left > 0
    /\ \E op \in UnmarshalOps : \E d \in Docs \cup {doc} :
          /\ d.of \in {"any", Reads(op)}
          /\ stack' = [stack EXCEPT ![t] = <<[Frame(op, 0) EXCEPT !.doc = d]>>]
    /\ left' = left - 1
    /\ UNCHANGED <<engine, userStatesMu, storageMu, bound, last, persisted>>

\* The host starts again with a newly constructed engine, keeping its document.
Restart(t) ==
    /\ \A o \in Threads : ~Running(o)
    /\ doc # NoDoc
    /\ initialStateID' = ConstructedInitial
    /\ userStates' = [u \in Users |-> NoEntry]
    /\ storage' = [u \in Users |-> NoBag]
    /\ last' = [last EXCEPT ![t] = [Frame("New", 0) EXCEPT !.pc = "ret"]]
    /\ UNCHANGED <<rev, callbacks, userStatesMu, storageMu, stack, left, bound,
                   persisted>>

\* FSM.MarshalJSON of the early revision, between RLock and RUnlock.
MarshalEarly(t) ==
    /\ rev = "early"
    /\ In(t, "MarshalJSON")
    /\ IF CanEncodeStorage(storage)
       THEN /\ doc' = [of |-> "MarshalJSON", syntax |-> TRUE,
                       initial_state_id |-> initialStateID,
                       user_states |-> EncodeStates(userStates),
                       storage |-> EmptyStorage]
            /\ snap' = Snapshot
            /\ stack' = SetTop(t, [Top(t) EXCEPT !.pc = "ret", !.doc = doc'])
       ELSE /\ UNCHANGED persisted
            /\ stack' = SetTop(t, [Top(t) EXCEPT !.pc = "ret",
                                                !.err = ErrUnsupportedType])
    /\ Unlocked(t, Top(t))
    /\ UNCHANGED <<engine, left, bound, last>>

\* FSM.UnmarshalJSON of the early revision, between Lock and Unlock: the
\* document is decoded into a local value, which is assigned when no error is
\* reported.
UnmarshalEarly(t) ==
    /\ rev = "early"
    /\ In(t, "UnmarshalJSON")
    /\ LET d == Top(t).doc
           us == DecodeStates(d.user_states, [u \in Users |-> NoEntry])
           st == DecodeStorage(d.storage, [u \in Users |-> NoBag])
           fresh == Snapshot = [initialStateID |-> ConstructedInitial,
                                userStates |-> [u \in Users |-> NoEntry],
                                storage |-> [u \in Users |-> NoBag]]
       IN  IF d.syntax /\ us.ok /\ st.ok
           THEN /\ initialStateID' = d.initial_state_id
                /\ userStates' = us.map
                /\ storage' = st.map
                /\ stack' = SetTop(t, [Top(t) EXCEPT !.pc = "ret", !.ok = fresh])
           ELSE /\ UNCHANGED <<initialStateID, userStates, storage>>
                /\ stack' = SetTop(t, [Top(t) EXCEPT !.pc = "ret", !.ok = fresh,
                                                    !.err = ErrDecode])
    /\ Unlocked(t, Top(t))
    /\ UNCHANGED <<rev, callbacks, left, bound, last, persisted>>

\* userStateStorage.MarshalJSON: json.Marshal(u.storage)
StateMarshal(t) ==
    /\ rev = "cur"
    /\ In(t, "StateMarshal")
    /\ doc' = [NoDoc EXCEPT !.of = "StateMarshal", !.syntax = TRUE,
                            !.initial_state_id = "",
                            !.user_states = EncodeStates(userStates)]
    /\ snap' = Snapshot
    /\ stack' = SetTop(t, [Top(t) EXCEPT !.pc = "ret", !.doc = doc'])
    /\ Unlocked(t, Top(t))
    /\ UNCHANGED <<engine, left, bound, last>>

\* dataStorage.MarshalJSON: json.Marshal(d.Storage)
DataMarshal(t) ==
    /\ rev = "cur"
    /\ In(t, "DataMarshal")
    /\ IF CanEncodeStorage(storage)
       THEN /\ doc' = [NoDoc EXCEPT !.of = "DataMarshal", !.syntax = TRUE,
                                    !.initial_state_id = ""]
            /\ snap' = Snapshot
            /\ stack' = SetTop(t, [Top(t) EXCEPT !.pc = "ret", !.doc = doc'])
       ELSE /\ UNCHANGED persisted
            /\ stack' = SetTop(t, [Top(t) EXCEPT !.pc = "ret",
                                                !.err = ErrUnsupportedType])
    /\ Unlocked(t, Top(t))
    /\ UNCHANGED <<engine, left, bound, last>>

\* userStateStorage.UnmarshalJSON: json.Unmarshal(data, &u.storage), which
\* decodes into the store's own map.
StateUnmarshal(t) ==
    /\ rev = "cur"
    /\ In(t, "StateUnmarshal")
    /\ LET d == Top(t).doc
           us == DecodeStates(d.user_states, userStates)
           fresh == \A u \in Users : userStates[u] = NoEntry
       IN  IF d.syntax
           THEN /\ userStates' = us.map
                /\ stack' = SetTop(t, [Top(t) EXCEPT !.pc = "ret", !.ok = fresh,
                                !.err = IF us.ok THEN ErrNil ELSE ErrDecode])
           ELSE /\ userStates' = userStates
                /\ stack' = SetTop(t, [Top(t) EXCEPT !.pc = "ret", !.ok = fresh,
                                                    !.err = ErrDecode])
    /\ Unlocked(t, Top(t))
    /\ UNCHANGED <<rev, initialStateID, callbacks, storage, left, bound, last,
                   persisted>>

\* dataStorage.UnmarshalJSON: json.Unmarshal(data, &d.Storage), which decodes
\* into the store's own map.
DataUnmarshal(t) ==
    /\ rev = "cur"
    /\ In(t, "DataUnmarshal")
    /\ LET d == Top(t).doc
           st == DecodeStorage(d.storage, storage)
           fresh == \A u \in Users : storage[u] = NoBag
       IN  IF d.syntax
           THEN /\ storage' = st.map
                /\ stack' = SetTop(t, [Top(t) EXCEPT !.pc = "ret", !.ok = fresh,
                                !.err = IF st.ok THEN ErrNil ELSE ErrDecode])
           ELSE /\ storage' = storage
                /\ stack' = SetTop(t, [Top(t) EXCEPT !.pc = "ret", !.ok = fresh,
                                                    !.err = ErrDecode])
    /\ Unlocked(t, Top(t))
    /\ UNCHANGED <<rev, initialStateID, callbacks, userStates, left, bound, last,
                   persisted>>

----------------------------------------------------------------------------
\* A state store given with WithUserStateStorage, whose methods may fail.

\* The error an engine method returns when the store method it calls fails:
\* Transition and Current wrap the store's error, Reset returns it as it is.
StoreError(f) ==
    IF f.op = "Transition" THEN ErrSetUserState
    ELSE IF f.op = "Reset" THEN ErrStore
    ELSE IF f.sec = "Exists" THEN ErrCheckUserState
    ELSE IF f.sec = "Set" THEN ErrSetInitial
    ELSE ErrGetUserState

\* What the engine method asks the store to write, for the sections that
\* write.
StoreWrite(f) == IF f.op = "Transition" THEN f.state ELSE initialStateID

\* Mutant of the failure path: Transition goes on to the dispatch after a
\* failed Set.
StoreFailureIgnored(t) ==
    /\ rev = "cur"
    /\ Running(t)
    /\ Top(t).op \in {"Transition", "Current", "Reset"}
    /\ Top(t).pc = "in"
    /\ Unlocked(t, Top(t))
    /\ stack' = SetTop(t, [Top(t) EXCEPT
                    !.pc = IF Top(t).op = "Transition" THEN "dispatch" ELSE "ret",
                    !.err = StoreError(Top(t))])
    /\ UNCHANGED <<engine, left, bound, last, persisted>>

\* The store method an engine method calls returns an error, and the engine
\* method returns at once: if err != nil { return fmt.Errorf(...) }.  The
\* interface does not say what a Set that fails has done to the store: it
\* has written the state or it has not.
StoreFailure(t) ==
    /\ rev = "cur"
    /\ Running(t)
    /\ Top(t).op \in {"Transition", "Current", "Reset"}
    /\ Top(t).pc = "in"
    /\ \E wrote \in BOOLEAN :
          /\ wrote => Top(t).sec = "Set"
          /\ userStates' = IF wrote
                           THEN UserStateStorageSet(userStates, Top(t).user,
                                                    StoreWrite(Top(t)))
                           ELSE userStates
    /\ Unlocked(t, Top(t))
    /\ stack' = SetTop(t, [Top(t) EXCEPT !.pc = "ret", !.err = StoreError(Top(t))])
    /\ UNCHANGED <<rev, initialStateID, callbacks, storage, left, bound, last, persisted>>

----------------------------------------------------------------------------
Step(t) ==
    \/ HostCall(t)
    \/ HostAddCallback(t)
    \/ AddCallback(t)
    \/ Lock(t)
    \/ Return(t)
    \/ TransitionSet(t)
    \/ TransitionEarly(t)
    \/ Dispatch(t)
    \/ CallbackCall(t)
    \/ CallbackReturn(t)
    \/ CurrentExists(t)
    \/ CurrentSet(t)
    \/ CurrentGet(t)
    \/ CurrentEarly(t)
    \/ ResetSet(t)
    \/ ResetEarly(t)
    \/ DataSet(t)
    \/ DataGet(t)
    \/ DataDelete(t)

\* The sequential specification: thread 1 is the host.
Next == Step(1)

Spec == Init /\ [][Next]_vars

\* The concurrent specification.
NextConc == \E t \in Threads : Step(t)

SpecConc == InitConc /\ [][NextConc]_vars

\* The concurrent specification under the scheduler's fairness: a thread that
\* can take a step takes one.
SpecLive ==
    InitLive /\ [][NextConc]_vars /\ \A t \in Threads : WF_vars(Step(t))

\* The persistence specification: one host calls the engine, marshals it,
\* starts again and unmarshals documents; callbacks call nothing.
SnapStep(t) ==
    \/ HostCall(t)
    \/ Lock(t)
    \/ Return(t)
    \/ TransitionSet(t)
    \/ TransitionEarly(t)
    \/ Dispatch(t)
    \/ CallbackReturn(t)
    \/ CurrentExists(t)
    \/ CurrentSet(t)
    \/ CurrentGet(t)
    \/ CurrentEarly(t)
    \/ ResetSet(t)
    \/ ResetEarly(t)
    \/ DataSet(t)
    \/ DataGet(t)
    \/ DataDelete(t)
    \/ HostMarshal(t)
    \/ HostUnmarshal(t)
    \/ Restart(t)
    \/ MarshalEarly(t)
    \/ UnmarshalEarly(t)
    \/ StateMarshal(t)
    \/ DataMarshal(t)
    \/ StateUnmarshal(t)
    \/ DataUnmarshal(t)

NextSnap == SnapStep(1)

SpecSnap == Init /\ [][NextSnap]_vars

\* The state store specification: one host calls the store's methods.
StoreStep(t) ==
    \/ HostStore(t)
    \/ Lock(t)
    \/ Return(t)
    \/ StateSet(t)
    \/ StateExists(t)
    \/ StateGet(t)

NextStore == StoreStep(1)

InitStore == Init /\ rev = "cur"

SpecStore == InitStore /\ [][NextStore]_vars

\* The specification of an engine over a host-supplied state store that may
\* fail: one host calls the engine.
OptStep(t) ==
    \/ HostCall(t)
    \/ Lock(t)
    \/ Return(t)
    \/ TransitionSet(t)
    \/ Dispatch(t)
    \/ CallbackCall(t)
    \/ CallbackReturn(t)
    \/ CurrentExists(t)
    \/ CurrentSet(t)
    \/ CurrentGet(t)
    \/ ResetSet(t)
    \/ DataSet(t)
    \/ DataGet(t)
    \/ DataDelete(t)
    \/ StoreFailure(t)

NextOpt == OptStep(1)

InitOpt == Init /\ rev = "cur"

SpecOpt == InitOpt /\ [][NextOpt]_vars

\* The example application's form: the states, the callbacks it gives to New,
\* the engine calls of handlerForm and handlerCancel.
ExampleStates == {"default", "start", "ask_name", "ask_age", "finish"}

ExampleCallbacks ==
    [s \in ExampleStates |->
        IF s = "start" THEN "callbackStart"
        ELSE IF s = "ask_name" THEN "callbackAskName"
        ELSE IF s = "ask_age" THEN "callbackAskAge"
        ELSE IF s = "finish" THEN "callbackFinish"
        ELSE NoCb]

ChatID == "chat-99"

HandlerCalls(userID) ==
    {[Frame("Current", userID) EXCEPT !.sec = "Exists"],
     [Frame("Transition", userID) EXCEPT !.state = "default", !.sec = "Set"],
     [Frame("Transition", userID) EXCEPT !.state = "start", !.sec = "Set",
                                         !.args = <<ChatID, userID>>]}

InitExample ==
    /\ rev \in Revs
    /\ New(ConstructedInitial, ExampleCallbacks)
    /\ bound = [t \in Threads |-> 0]
    /\ Idle
    /\ left = MaxCalls
    /\ last = [t \in Threads |-> NoCall]

\* A handler of the example calls the engine.
HostExample(t) ==
    /\ ~Running(t)
    /\ left > 0
    /\ \E u \in Users : \E f \in HandlerCalls(u) :
          stack' = [stack EXCEPT ![t] = <<f>>]
    /\ left' = left - 1
    /\ UNCHANGED <<engine, userStatesMu, storageMu, bound, last, persisted>>

\* callbackStart: chatID := args[0]; userID := args[1].(int64);
\* app.f.Transition(ctx, userID, stateAskName, chatID)
callbackStart(t) ==
    /\ Running(t)
    /\ Top(t).op = "callback"
    /\ Top(t).cb = "callbackStart"
    /\ Top(t).n = 0
    /\ left > 0
    /\ LET chatID == Top(t).args[1]
           userID == Top(t).args[2]
       IN  stack' = Push(t, [Top(t) EXCEPT !.n = 1],
                         [Frame("Transition", userID) EXCEPT
                             !.state = "ask_name", !.sec = "Set", !.args = <<chatID>>])
    /\ left' = left - 1
    /\ UNCHANGED <<engine, userStatesMu, storageMu, bound, last, persisted>>

\* The callback has made the engine calls of its body.
BodyDone(f) == f.cb = "callbackStart" => f.n = 1

\* A callback of the example returns nil (the older example's callbacks
\* return nothing) once its body is done.
ExampleReturn(t) ==
    /\ Running(t)
    /\ Top(t).op = "callback"
    /\ BodyDone(Top(t))
    /\ CallbackReturn(t)
    /\ Top(t)'.res = ErrNil

\* The specification of the example's form: one host thread.
ExampleStep(t) ==
    \/ HostExample(t)
    \/ Lock(t)
    \/ Return(t)
    \/ TransitionSet(t)
    \/ TransitionEarly(t)
    \/ Dispatch(t)
    \/ callbackStart(t)
    \/ ExampleReturn(t)
    \/ CurrentExists(t)
    \/ CurrentSet(t)
    \/ CurrentGet(t)
    \/ CurrentEarly(t)

NextExample == ExampleStep(1)

SpecExample == InitExample /\ [][NextExample]_vars

\* Distinct users transition in parallel; their callbacks call nothing.
TransitionStep(t) ==
    \/ HostTransition(t)
    \/ Lock(t)
    \/ Return(t)
    \/ TransitionSet(t)
    \/ TransitionEarly(t)
    \/ Dispatch(t)
    \/ CallbackReturn(t)

NextUsers == \E t \in Threads : TransitionStep(t)

SpecUsers == InitUsers /\ [][NextUsers]_vars

----------------------------------------------------------------------------
\* Properties.

AtRet(t, op) == Running(t) /\ Top(t).op = op /\ Top(t).pc = "ret"
HostAtRet(t, op) == Len(stack[t]) = 1 /\ AtRet(t, op)

\* Nested calls that change the state of the user of the call.
StateChanging == {"Transition", "Reset"}

\* C1: Current for a user without an entry returns the initial StateID given at
\* construction and leaves that entry written; a Current that directly follows
\* a Current for the same user returns the same StateID, and no step of a
\* Current for a user with an entry changes the state store.
C1_CurrentMaterializesOnce ==
    /\ [](\A t \in Threads : AtRet(t, "Current") =>
            LET f == Top(t)
            IN  /\ ~f.ok => /\ f.res = ConstructedInitial
                            /\ f.err = ErrNil
                            /\ userStates[f.user] = ConstructedInitial
                /\ (Len(stack[t]) = 1 /\ last[t].op = "Current"
                        /\ last[t].user = f.user)
                   => f.ok /\ f.res = last[t].res /\ f.err = ErrNil)
    /\ [][\A t \in Threads :
            (Running(t) /\ Top(t).op = "Current"
                /\ userStates[Top(t).user] # NoEntry)
            => userStates' = userStates]_vars

\* C1 witness: a second Current in a row returned the initial StateID that the
\* first one wrote.
C1_Witness ==
    /\ HostAtRet(1, "Current")
    /\ Top(1).ok
    /\ Top(1).res = ConstructedInitial
    /\ last[1].op = "Current"
    /\ last[1].user = Top(1).user
    /\ ~last[1].ok

\* C2: a Current that directly follows Transition(u, S), whose callback (if
\* any) made no state-changing call for u, returns S, whatever u's entry was
\* before and whether or not S has a callback.
C2_TransitionThenCurrent ==
    \A t \in Threads :
        (HostAtRet(t, "Current") /\ last[t].op = "Transition"
            /\ last[t].user = Top(t).user
            /\ last[t].did \cap StateChanging = {})
        => Top(t).res = last[t].state /\ Top(t).err = ErrNil

\* C2 witness: the transition replaced another state and ran a callback.
C2_Witness ==
    /\ HostAtRet(1, "Current")
    /\ last[1].op = "Transition"
    /\ last[1].user = Top(1).user
    /\ last[1].n = 1
    /\ last[1].did \cap StateChanging = {}
    /\ last[1].prev \notin {NoEntry, last[1].state}
    /\ Top(1).res = last[1].state

\* C3: a Transition into a state with a callback calls that callback once, on
\* the caller's stack, after the state write and before it returns, with the
\* args of the call; it calls no other callback, and none without a
\* registration.
C3_CallbackInvokedOnce ==
    \A t \in Threads : \A i \in 1..Len(stack[t]) :
        LET f == stack[t][i]
        IN  /\ (f.op = "Transition" /\ f.pc = "ret") =>
                    IF callbacks[f.state] # NoCb
                    THEN f.n = 1 /\ f.ok /\ f.cb = callbacks[f.state]
                    ELSE f.n = 0 /\ f.cb = NoCb
            /\ (f.op = "Transition" /\ f.pc \in {"lock", "in", "dispatch"}) =>
                    f.n = 0 /\ i = Len(stack[t])
            /\ (f.op = "Transition" /\ f.pc = "callback") =>
                    /\ f.n = 1
                    /\ i < Len(stack[t])
                    /\ stack[t][i + 1].op = "callback"
            /\ f.op = "callback" =>
                    /\ i > 1
                    /\ LET p == stack[t][i - 1]
                       IN  /\ p.op = "Transition"
                           /\ p.pc = "callback"
                           /\ f.cb = callbacks[p.state]
                           /\ f.args = p.args
                           /\ f.user = p.user
                           /\ (i = Len(stack[t]) /\ f.n = 0)
                              => userStates[p.user] = p.state

\* C3 witness: a Transition with args returns after its callback ran.
C3_Witness ==
    /\ AtRet(1, "Transition")
    /\ Top(1).n = 1
    /\ Top(1).ok
    /\ Top(1).args = <<"chat-99">>

\* C4 as claimed: after a callback that failed, Transition returns a failure
\* and the stored state is the target state.
C4_FailedCallbackKeepsTarget ==
    \A t \in Threads : \A i \in 1..Len(stack[t]) :
        LET f == stack[t][i]
        IN  (f.op = "Transition" /\ f.pc = "ret" /\ f.res = ErrCallback)
            => f.err # ErrNil /\ userStates[f.user] = f.state

\* C4 amended: after a callback that failed, Transition returns a failure, and
\* the stored state is the target state unless the callback itself moved the
\* user by a nested Transition or Reset.
C4_FailedCallbackNotRolledBack ==
    \A t \in Threads : \A i \in 1..Len(stack[t]) :
        LET f == stack[t][i]
        IN  (f.op = "Transition" /\ f.pc = "ret" /\ f.res = ErrCallback)
            => /\ f.err = ErrExecCallback
               /\ f.did \cap StateChanging = {} => userStates[f.user] = f.state

\* C4 witness: the callback failed and the state is the target, not the
\* state held before the call.
C4_Witness ==
    /\ AtRet(1, "Transition")
    /\ Top(1).res = ErrCallback
    /\ Top(1).err = ErrExecCallback
    /\ Top(1).prev \notin {NoEntry, Top(1).state}
    /\ userStates[Top(1).user] = Top(1).state

\* C5: a Transition into a state without a callback returns nil, and no step
\* of it changes the data store, the callbacks, the initial StateID or
\* another user's state.
C5_NoCallbackNoSideEffect ==
    /\ [](\A t \in Threads : \A i \in 1..Len(stack[t]) :
            LET f == stack[t][i]
            IN  (f.op = "Transition" /\ f.pc = "ret" /\ callbacks[f.state] = NoCb)
                => f.err = ErrNil /\ f.n = 0 /\ userStates[f.user] = f.state)
    /\ [][\A t \in Threads :
            (Running(t) /\ Top(t).op = "Transition"
                /\ callbacks[Top(t).state] = NoCb)
            => /\ storage' = storage
               /\ callbacks' = callbacks
               /\ initialStateID' = initialStateID
               /\ \A v \in Users \ {Top(t).user} : userStates'[v] = userStates[v]]_vars

\* C5 witness: such a Transition returns while another user has a state and
\* the user has data.
C5_Witness ==
    /\ HostAtRet(1, "Transition")
    /\ callbacks[Top(1).state] = NoCb
    /\ Top(1).err = ErrNil
    /\ storage[Top(1).user] # NoBag
    /\ \E v \in Users \ {Top(1).user} : userStates[v] # NoEntry

Holds(t) == userStatesMu.w = t \/ t \in userStatesMu.r \/ storageMu = t

\* C6: a thread holds a mutex only while its running frame is inside a store
\* method, so none is held while a callback runs or while a call made by a
\* callback waits for a mutex; a waiting thread waits for another thread; and
\* every call that was started returns, unless the runtime ends the process
\* on a data race, inside a method that holds its read lock.
C6_NoLockAcrossCallback ==
    /\ [](\A t \in Threads :
            /\ Holds(t) => /\ Running(t)
                           /\ Top(t).pc \in {"in", "fatal"}
                           /\ Top(t).op # "callback"
            /\ (Running(t) /\ Top(t).pc = "lock" /\ ~CanLock(t, Top(t)))
               => \E o \in Threads \ {t} : Holds(o))
    /\ \A t \in Threads : Running(t) ~> (~Running(t) \/ Fatal)

\* C6 witness: a Transition made by a callback is inside the state store.
C6_Witness ==
    /\ Len(stack[1]) = 3
    /\ stack[1][1].op = "Transition"
    /\ stack[1][2].op = "callback"
    /\ In(1, "Transition")
    /\ Top(1).user = stack[1][1].user
    /\ Holds(1)

\* C7: with every host thread serving its own user, an idle thread's user
\* is in the state its last Transition named, and when all threads are idle
\* the state store holds one entry for each user that made a call.
C7_DistinctUsersKeepOwnState ==
    /\ \A t \in Threads :
          (~Running(t) /\ last[t].op = "Transition")
          => userStates[bound[t]] = last[t].state
    /\ (\A t \in Threads : ~Running(t))
       => {u \in Users : userStates[u] # NoEntry}
            = {bound[t] : t \in {x \in Threads : last[x].op = "Transition"}}

\* C7 witness: both users are done and hold different states.
C7_Witness ==
    /\ \A t \in Threads : ~Running(t) /\ last[t].op = "Transition"
    /\ left = 0
    /\ last[1].state # last[2].state
    /\ userStates[7] = last[1].state
    /\ userStates[42] = last[2].state

\* C8: a Get that directly follows Set(u, k, v) returns v; one that directly
\* follows Delete(u, k) reports absence (nil when u has a bag, the no-data
\* error when u has none); one that directly follows the same Get reports
\* what that one reported.
C8_SetGetDelete ==
    \A t \in Threads :
        (HostAtRet(t, "Get") /\ last[t].user = Top(t).user
            /\ last[t].key = Top(t).key)
        => LET f == Top(t)
           IN  /\ last[t].op = "Set" => f.res = last[t].val /\ f.err = ErrNil
               /\ last[t].op = "Delete" =>
                      /\ f.res = Nil
                      /\ f.err = IF storage[f.user] = NoBag THEN ErrGetUserData
                                 ELSE ErrNil
               /\ last[t].op = "Get" => f.res = last[t].res /\ f.err = last[t].err

\* C8 witness: a Get after the Delete of a key that a Set had written.
C8_Witness ==
    /\ HostAtRet(1, "Get")
    /\ last[1].op = "Delete"
    /\ last[1].user = Top(1).user
    /\ last[1].key = Top(1).key
    /\ storage[Top(1).user] # NoBag
    /\ Top(1).res = Nil
    /\ Top(1).err = ErrNil

\* C9: a snapshot is produced whatever calls came before it, and restoring it
\* into a newly constructed engine gives every user that had a state and every
\* key that had a value what they had when the snapshot was taken.
C9_SnapshotRestoreRoundTrip ==
    \A t \in Threads :
        /\ \A op \in {"MarshalJSON", "StateMarshal", "DataMarshal"} :
              HostAtRet(t, op) => Top(t).err = ErrNil
        /\ \A op \in {"UnmarshalJSON", "StateUnmarshal", "DataUnmarshal"} :
              (HostAtRet(t, op) /\ Top(t).ok /\ Top(t).doc = doc)
              => /\ Top(t).err = ErrNil
                 /\ op # "DataUnmarshal" =>
                        \A u \in Users : snap.userStates[u] # NoEntry
                                          => userStates[u] = snap.userStates[u]
                 /\ op # "StateUnmarshal" =>
                        \A u \in Users : snap.storage[u] # NoBag
                                          => storage[u] = snap.storage[u]

\* C10: a step of UnmarshalJSON that ends with an error leaves the initial
\* StateID, the state store and the data store as they were.
C10_FailedRestoreChangesNothing ==
    [][\A t \in Threads :
          (/\ \E op \in {"UnmarshalJSON", "StateUnmarshal", "DataUnmarshal"} :
                 In(t, op)
           /\ stack'[t] # <<>>
           /\ stack'[t][Len(stack'[t])].pc = "ret"
           /\ stack'[t][Len(stack'[t])].err # ErrNil)
          => UNCHANGED <<initialStateID, userStates, storage>>]_vars

C12_StateGetMissingIsNotFound ==
    \A t \in Threads :
        AtRet(t, "StateGet") =>
            LET f == Top(t)
            IN  IF userStates[f.user] = NoEntry
                THEN f.err = errNoUserState
                ELSE f.res = userStates[f.user] /\ f.err = ErrNil

\* C13: a Current that directly follows Reset(u) returns the initial StateID,
\* whatever u's entry was before the Reset (none included), and no step of a
\* Reset changes the data store.
C13_ResetThenCurrent ==
    /\ [](\A t \in Threads :
            (HostAtRet(t, "Current") /\ last[t].op = "Reset"
                /\ last[t].user = Top(t).user)
            => /\ Top(t).res = ConstructedInitial
               /\ Top(t).err = ErrNil
               /\ userStates[Top(t).user] = ConstructedInitial)
    /\ [][\A t \in Threads :
            (Running(t) /\ Top(t).op = "Reset") => storage' = storage]_vars

\* C13 witness: the user held another state before the Reset.
C13_Witness ==
    /\ HostAtRet(1, "Current")
    /\ last[1].op = "Reset"
    /\ last[1].user = Top(1).user
    /\ last[1].prev \notin {NoEntry, ConstructedInitial}
    /\ Top(1).res = ConstructedInitial

\* C14: a user has an entry in the state map (Exists is true) only after a
\* Transition, Current or Reset wrote one, and an entry that is there stays
\* there through every later step, those of Reset included.
C14_ExistsStaysTrue ==
    [][\A u \in Users :
          /\ (userStates[u] = NoEntry /\ userStates'[u] # NoEntry)
             => \E t \in Threads :
                   /\ Running(t)
                   /\ Top(t).op \in {"Transition", "Current", "Reset"}
                   /\ Top(t).user = u
          /\ userStates[u] # NoEntry => userStates'[u] # NoEntry]_vars

\* C15: in every reachable state the engine's initial StateID is the one that
\* was given to New.
C15_InitialStateImmutable == initialStateID = ConstructedInitial

\* C16: no step of a call made for a user (by a host thread, or by a callback
\* of a transition of that user) changes the state entry or the data bag of
\* another user, however the calls of two threads interleave.
C16_DistinctUsersIndependent ==
    [][\A t \in Threads :
          (Running(t) /\ stack'[t] # stack[t])
          => \A v \in Users \ {Top(t).user} :
                /\ userStates'[v] = userStates[v]
                /\ storage'[v] = storage[v]]_vars

\* C16 witness: a Set for one user and a Transition for another ran at the
\* same time, and each user has what its own call wrote and nothing else.
C16_Witness ==
    /\ bound = <<7, 42>>
    /\ AtRet(1, "Set")
    /\ AtRet(2, "Transition")
    /\ storage[7] = [EmptyBag EXCEPT ![Top(1).key] = Top(1).val]
    /\ userStates[42] = Top(2).state
    /\ userStates[7] = NoEntry
    /\ storage[42] = NoBag

\* C17: no step of a Current changes the entry of a user that has one, also
\* when another thread's Transition for that user wrote the entry while the
\* Current was running.
C17_CurrentKeepsCommittedState ==
    [][\A t \in Threads :
          (/\ Running(t)
           /\ Top(t).op = "Current"
           /\ stack'[t] # stack[t]
           /\ userStates[Top(t).user] # NoEntry)
          => userStates'[Top(t).user] = userStates[Top(t).user]]_vars

\* C18: when UnmarshalJSON returns without an error, the maps it restores
\* hold the entries of the document and no other, and the step that replaces
\* a map is made by a thread that holds that map's mutex exclusively.
C18_RestoreReplacesContents ==
    /\ [](\A t \in Threads :
            \A op \in {"UnmarshalJSON", "StateUnmarshal", "DataUnmarshal"} :
                (HostAtRet(t, op) /\ Top(t).err = ErrNil)
                => /\ op # "DataUnmarshal" =>
                        userStates = DecodeStates(Top(t).doc.user_states,
                                                  [u \in Users |-> NoEntry]).map
                   /\ op # "StateUnmarshal" =>
                        storage = DecodeStorage(Top(t).doc.storage,
                                                [u \in Users |-> NoBag]).map)
    /\ [][\A t \in Threads :
            (\E op \in {"UnmarshalJSON", "StateUnmarshal", "DataUnmarshal"} :
                In(t, op))
            => /\ userStates' # userStates => userStatesMu.w = t
               /\ storage' # storage => storageMu = t]_vars

\* The thread is inside a section that accesses the state map, the data map.
InStates(t) ==
    /\ Running(t)
    /\ Top(t).pc = "in"
    /\ Top(t).op \notin DataOps \cup {"AddCallback"}
InData(t) == Running(t) /\ Top(t).pc = "in" /\ Top(t).op \in DataOps

\* The section the thread is inside writes the state map, the data map.
WritesStates(t) ==
    \/ Top(t).op \in {"Transition", "Reset", "StateSet", "UnmarshalJSON",
                      "StateUnmarshal"}
    \/ /\ Top(t).op = "Current"
       /\ IF rev = "cur" THEN Top(t).sec = "Set"
          ELSE userStates[Top(t).user] = NoEntry
WritesData(t) == Top(t).op \in {"Set", "Delete", "DataUnmarshal"}

\* C19: a thread that is about to write a map holds that map's mutex
\* exclusively, and no other thread is inside a section of the same map at
\* that time.
C19_WritersAreAlone ==
    \A t \in Threads :
        /\ (InStates(t) /\ WritesStates(t))
           => /\ userStatesMu.w = t
              /\ \A o \in Threads \ {t} : ~InStates(o)
        /\ (InData(t) /\ WritesData(t))
           => /\ storageMu = t
              /\ \A o \in Threads \ {t} : ~InData(o)

\* C20: when the only calls made so far are two Sets by two threads for the
\* same user and different keys, and both have written, the user's one bag
\* holds both keys with their values; and every Set step makes the bag only
\* when the user has none and keeps what the bag holds under the other keys.
C20_ConcurrentSetsKeepBothKeys ==
    /\ []((/\ left = MaxCalls - 3
            /\ HostAtRet(1, "Set")
            /\ HostAtRet(2, "Set")
            /\ Top(1).user = Top(2).user
            /\ Top(1).key # Top(2).key)
           => storage[Top(1).user] = [EmptyBag EXCEPT ![Top(1).key] = Top(1).val,
                                                      ![Top(2).key] = Top(2).val])
    /\ [][\A t \in Threads :
            (In(t, "Set") /\ stack'[t] # stack[t])
            => LET f == Top(t)
                   bag == IF storage[f.user] = NoBag THEN EmptyBag
                          ELSE storage[f.user]
               IN  /\ storage'[f.user][f.key] = f.val
                   /\ \A k \in Keys \ {f.key} : storage'[f.user][k] = bag[k]]_vars

\* C20 witness: both Sets of the two threads have written into the bag of a
\* user that had none.
C20_Witness ==
    /\ left = MaxCalls - 3
    /\ HostAtRet(1, "Set")
    /\ HostAtRet(2, "Set")
    /\ Top(1).user = Top(2).user
    /\ Top(1).key = "name"
    /\ Top(2).key = "age"
    /\ storage[Top(1).user]["name"] = Top(1).val
    /\ storage[Top(1).user]["age"] = Top(2).val

\* C21: a Transition whose state store Set failed returns that failure to its
\* caller at once: it has looked up no callback, dispatched none, and no
\* callback frame was ever above it.
C21_FailedSetSkipsCallback ==
    /\ \A t \in Threads : \A i \in DOMAIN stack[t] :
          LET f == stack[t][i]
          IN  (f.op = "Transition" /\ f.err = ErrSetUserState)
              => /\ i = Len(stack[t])
                 /\ f.pc = "ret"
                 /\ f.cb = NoCb
                 /\ f.n = 0
                 /\ ~f.ok
                 /\ f.did = {}
    /\ \A t \in Threads :
          (last[t].op = "Transition" /\ last[t].err = ErrSetUserState)
          => last[t].cb = NoCb /\ last[t].n = 0 /\ ~last[t].ok

\* C21 witness: a Transition to a state that has a callback returned the
\* store's failure to the host.
C21_Witness ==
    /\ last[1].op = "Transition"
    /\ last[1].err = ErrSetUserState
    /\ callbacks[last[1].state] # NoCb
    /\ last[1].n = 0

\* C22: while the Transition that callbackStart makes is on the stack above
\* the Transition to start, the callback of start has not returned, and the
\* stored state is start until the nested call commits and ask_name from
\* then on; the nested call returns only after its own callback has; and
\* when the outer Transition has returned, the stored state is ask_name,
\* not start.
C22_NestedTransitionOrder ==
    \A t \in Threads :
        /\ (/\ Len(stack[t]) >= 3
            /\ stack[t][1].op = "Transition"
            /\ stack[t][3].op = "Transition")
           => LET a == stack[t][1]
                  b == stack[t][3]
              IN  /\ a.pc = "callback"
                  /\ ~a.ok
                  /\ b.user = a.user
                  /\ userStates[a.user] = IF b.pc \in {"lock", "in"}
                                          THEN a.state ELSE b.state
                  /\ b.pc = "ret" => b.ok
        /\ (HostAtRet(t, "Transition") /\ Top(t).cb = "callbackStart")
           => /\ Top(t).ok
              /\ "Transition" \in Top(t).did
              /\ userStates[Top(t).user] = "ask_name"
              /\ userStates[Top(t).user] # Top(t).state
        /\ (~Running(t) /\ last[t].op = "Transition" /\ last[t].cb = "callbackStart")
           => userStates[last[t].user] = "ask_name"

\* C22 witness: the Transition to start has returned to the host after its
\* callback made the Transition to ask_name, whose callback ran.
C22_Witness ==
    /\ ~Running(1)
    /\ last[1].op = "Transition"
    /\ last[1].state = "start"
    /\ last[1].ok
    /\ "Transition" \in last[1].did
    /\ userStates[last[1].user] = "ask_name"

====
